---- MODULE Spec2Model ----
(***************************************************************************)
(* Clipboard watcher and single-flight recognition pipeline of             *)
(* Gemini-LaTeXOCR.py (class MainWindow and the module-level helpers).     *)
(*                                                                         *)
(* One Qt event loop runs the handlers (timer tick, file selection, slot   *)
(* of a queued signal); each handler is one atomic action.  A worker       *)
(* thread runs task(); its signals are queued to the event loop.           *)
(***************************************************************************)
EXTENDS Integers, Sequences, FiniteSets, TLC

VARIABLES
  clipboard,                        \* what QApplication.clipboard() holds
  last_clipboard_image_hash,        \* self.last_clipboard_image_hash
  last_clipboard_image,             \* self.last_clipboard_image
  is_clipboard_monitoring_enabled,  \* self.is_clipboard_monitoring_enabled
  processing_image,                 \* self.processing_image
  api_key_entry,                    \* self.api_key_entry.text()
  selectPc,                         \* position of select_image: "idle" | "dialog"
  inv,                              \* the pipeline invocations, in dispatch order
  eventQueue,                       \* worker signals queued to the event loop
  tempFiles,                        \* temporary files that exist on disk
  timerActive,                      \* self.timer is running
  restoreTimers,                    \* pending QTimer.singleShot(1000, ...): the captured states
  samples,                          \* history: the samples fingerprinted by the watcher
  arg,                              \* input of a pure function under check
  ret                               \* its results

vars == <<clipboard, last_clipboard_image_hash, last_clipboard_image,
          is_clipboard_monitoring_enabled, processing_image, api_key_entry,
          selectPc, inv, eventQueue, tempFiles, timerActive, restoreTimers,
          samples, arg, ret>>

appVars == <<clipboard, last_clipboard_image_hash, last_clipboard_image,
             is_clipboard_monitoring_enabled, processing_image, api_key_entry,
             selectPc, inv, eventQueue, tempFiles, timerActive, restoreTimers,
             samples>>

(***************************************************************************)
(* Bounds                                                                  *)
(***************************************************************************)
MaxInvocations == 2     \* invocations dispatched in one run of Spec
MaxFairInvocations == 1 \* invocations dispatched in one run of FairSpec
MaxTempFiles == 1       \* temporary files left on disk in one run
MaxSamples == 5         \* watcher samples in one run of WatchSpec
MaxPixels == 1          \* pixels of an image given to calculate_image_hash
MaxLen == 4             \* tokens of a text given to process_latex_output
MaxPendingRestores == 2 \* single-shot timers of copy_result_to_clipboard pending at once

(***************************************************************************)
(* Images.  A pixel is <<r, g, b>>, an image a sequence of pixels.  The    *)
(* images here are at most 100x100, so thumbnail((100, 100)) keeps them.   *)
(***************************************************************************)
Channels == {0, 1, 255}
Pixel == Channels \X Channels \X Channels

NoImage == "None"

\* the two images that are put on the clipboard
Pixels(name) ==
  CASE name = "A" -> << <<0, 0, 0>> >>
    [] name = "B" -> << <<255, 255, 255>> >>

\* PIL's RGB -> L conversion of one pixel (ITU-R 601-2 luma, 16-bit fixed point).
Luma(p) == (p[1] * 19595 + p[2] * 38470 + p[3] * 7471 + 32768) \div 65536

\* small_image.convert('L').tobytes()
GrayBytes(img) == [i \in 1..Len(img) |-> Luma(img[i])]

RECURSIVE RgbBytes(_)
\* pil_image.tobytes() of an RGB image
RgbBytes(img) ==
  IF img = <<>> THEN <<>>
  ELSE <<img[1][1], img[1][2], img[1][3]>> \o RgbBytes(Tail(img))

NoHash == <<"None", <<>>>>
RAISE == <<"raise", <<>>>>
HashOutcomes == {"digest", "fallback", "raise"}

\* MainWindow.calculate_image_hash.  h is what the library calls do:
\* "digest": copy/thumbnail/convert/md5 succeed, the hex digest is returned;
\* "fallback": that step raises and hash(pil_image.tobytes()) is returned;
\* "raise": the fallback raises too.
calculate_image_hash(img, h) ==
  CASE h = "digest"   -> <<"md5", GrayBytes(img)>>
    [] h = "fallback" -> <<"hash", RgbBytes(img)>>
    [] h = "raise"    -> RAISE

(***************************************************************************)
(* The clipboard                                                           *)
(***************************************************************************)
\* "none": no image on the clipboard; "null": mimeData().hasImage() and a
\* null QImage; otherwise the name of the image it holds.
ClipContents == {"none", "null", "A", "B"}
hasImage(clip) == clip # "none"
isNull(clip) == clip = "null"

\* A faulty initialize_clipboard_state that forgets the recorded image when the
\* clipboard holds none.
initialize_clipboard_state_forgets(clip, saveOk, openOk, h, oldHash, oldImage) ==
  LET keep == [hash |-> oldHash, image |-> oldImage, leak |-> 0, sampled |-> FALSE]
      fp == calculate_image_hash(Pixels(clip), h)
  IN  IF ~hasImage(clip) \/ isNull(clip)
      THEN [hash |-> NoHash, image |-> NoImage, leak |-> 0, sampled |-> FALSE]
      ELSE IF ~saveOk THEN [keep EXCEPT !.leak = 1]
      ELSE IF ~openOk \/ fp = RAISE THEN keep
      ELSE [hash |-> fp, image |-> clip, leak |-> 0, sampled |-> TRUE]

\* MainWindow.initialize_clipboard_state.  saveOk: image.save returned True;
\* openOk: Image.open(...).convert("RGB") did not raise; h: see
\* calculate_image_hash.  leak: temporary files left on disk at return;
\* sampled: a fingerprint was computed.
initialize_clipboard_state(clip, saveOk, openOk, h, oldHash, oldImage) ==
  LET keep == [hash |-> oldHash, image |-> oldImage, leak |-> 0, sampled |-> FALSE]
      fp == calculate_image_hash(Pixels(clip), h)
  IN  IF ~hasImage(clip) \/ isNull(clip) THEN keep
      ELSE IF ~saveOk THEN [keep EXCEPT !.leak = 1]
      ELSE IF ~openOk \/ fp = RAISE THEN keep
      ELSE [hash |-> fp, image |-> clip, leak |-> 0, sampled |-> TRUE]

\* A faulty check_clipboard_for_image that does not look at processing_image.
check_clipboard_for_image_while_busy(clip, saveOk, openOk, h, key, mon, busy, oldHash, oldImage) ==
  LET keep == [hash |-> oldHash, image |-> oldImage, leak |-> 0,
               dispatch |-> FALSE, sampled |-> FALSE]
      fp == calculate_image_hash(Pixels(clip), h)
  IN  IF ~mon THEN keep
      ELSE IF ~hasImage(clip) \/ isNull(clip) THEN keep
      ELSE IF ~saveOk THEN [keep EXCEPT !.leak = 1]
      ELSE IF ~openOk \/ fp = RAISE THEN keep
      ELSE IF fp # oldHash
           THEN [hash |-> fp, image |-> clip, leak |-> 0,
                 dispatch |-> (key # ""), sampled |-> TRUE]
           ELSE [keep EXCEPT !.sampled = TRUE]

\* A faulty check_clipboard_for_image that does not look at the API key.
check_clipboard_for_image_any_key(clip, saveOk, openOk, h, key, mon, busy, oldHash, oldImage) ==
  LET keep == [hash |-> oldHash, image |-> oldImage, leak |-> 0,
               dispatch |-> FALSE, sampled |-> FALSE]
      fp == calculate_image_hash(Pixels(clip), h)
  IN  IF ~mon \/ busy THEN keep
      ELSE IF ~hasImage(clip) \/ isNull(clip) THEN keep
      ELSE IF ~saveOk THEN [keep EXCEPT !.leak = 1]
      ELSE IF ~openOk \/ fp = RAISE THEN keep
      ELSE IF fp # oldHash
           THEN [hash |-> fp, image |-> clip, leak |-> 0,
                 dispatch |-> TRUE, sampled |-> TRUE]
           ELSE [keep EXCEPT !.sampled = TRUE]

\* MainWindow.check_clipboard_for_image, up to the call of process_pil_image.
\* dispatch: process_pil_image is called; sampled: a fingerprint was computed.
check_clipboard_for_image(clip, saveOk, openOk, h, key, mon, busy, oldHash, oldImage) ==
  LET keep == [hash |-> oldHash, image |-> oldImage, leak |-> 0,
               dispatch |-> FALSE, sampled |-> FALSE]
      fp == calculate_image_hash(Pixels(clip), h)
  IN  IF ~mon \/ busy THEN keep
      ELSE IF ~hasImage(clip) \/ isNull(clip) THEN keep
      ELSE IF ~saveOk THEN [keep EXCEPT !.leak = 1]
      ELSE IF ~openOk \/ fp = RAISE THEN keep
      ELSE IF fp # oldHash
           THEN [hash |-> fp, image |-> clip, leak |-> 0,
                 dispatch |-> (key # ""), sampled |-> TRUE]
           ELSE [keep EXCEPT !.sampled = TRUE]

(***************************************************************************)
(* The pipeline                                                            *)
(***************************************************************************)
\* What the stages of task() do: "ok": all succeed; "open": Image.open raises
\* (process_image only); "compress": compress_image raises; "recognize":
\* recognize_image_content raises; "emit": result.emit raises.
TaskOutcomes(kind) ==
  {"ok", "compress", "recognize", "emit"} \cup (IF kind = "file" THEN {"open"} ELSE {})

\* A faulty task() whose except clause is missing.
task_no_except(o) ==
  [emits |-> IF o = "ok" THEN <<"result">> ELSE <<>>, escapes |-> o # "ok"]

\* The try/except of task() in process_image and process_pil_image: the signals
\* it emits, and whether the exception leaves it.
task(o) ==
  [emits |-> IF o = "ok" THEN <<"result">> ELSE <<"error">>, escapes |-> FALSE]

\* A faulty processing_finished that leaves the flag set.
processing_finished_keep ==
  processing_image' = processing_image

\* MainWindow.processing_finished, the slot of the finished signal.
processing_finished ==
  processing_image' = FALSE

(***************************************************************************)
(* inv[i] is the record of an invocation: kind ("file" | "clip"), key (the   *)
(* api_key it was given), pc (where its worker thread is), raised          *)
(* (recognize_image_content raised), notes (the notifications delivered to *)
(* the slots, in order).  The record of an invocation that is over is kept *)
(* until a later dispatch takes its place.                                 *)
(***************************************************************************)
Invocations == 1..Len(inv)

RECURSIVE SignalsOf(_, _)
\* the signals of invocation i in queue q, oldest first
SignalsOf(i, q) ==
  IF q = <<>> THEN <<>>
  ELSE (IF q[1].of = i THEN <<q[1].sig>> ELSE <<>>) \o SignalsOf(i, Tail(q))

\* invocation i is over: its thread has ended (or never started) and nothing
\* of it is queued
Over(i) ==
  /\ inv[i].pc \in {"done", "escaped", "nolaunch"}
  /\ SignalsOf(i, eventQueue) = <<>>

\* where the next invocation is recorded
NextSlot ==
  IF \E i \in Invocations : Over(i)
  THEN CHOOSE i \in Invocations : Over(i) /\ \A j \in Invocations : Over(j) => i <= j
  ELSE Len(inv) + 1

\* the run has room for one more invocation among cap
CanDispatch(cap) == NextSlot <= cap

\* The body shared by process_image ("file") and process_pil_image ("clip").
\* launchOk: threading.Thread(target=task).start() did not raise.  On a launch
\* failure the except clause clears the flag and emits error on this thread,
\* where the slot runs at once.
StartPipeline(kind, api_key, launchOk) ==
  LET rec == IF launchOk
             THEN [kind |-> kind, key |-> api_key, pc |-> "body", raised |-> FALSE,
                   notes |-> <<>>]
             ELSE [kind |-> kind, key |-> api_key, pc |-> "nolaunch", raised |-> FALSE,
                   notes |-> <<"error">>]
  IN  /\ processing_image' = launchOk
      /\ inv' = IF NextSlot <= Len(inv) THEN [inv EXCEPT ![NextSlot] = rec]
                ELSE Append(inv, rec)

\* MainWindow.process_image
process_image(api_key, launchOk) == StartPipeline("file", api_key, launchOk)

\* MainWindow.process_pil_image
process_pil_image(api_key, launchOk) == StartPipeline("clip", api_key, launchOk)

RECURSIVE Tagged(_, _)
\* the signals s of invocation i, as queued events
Tagged(i, s) ==
  IF s = <<>> THEN <<>> ELSE <<[of |-> i, sig |-> s[1]]>> \o Tagged(i, Tail(s))

\* The worker thread of invocation i runs the try/except of task().
WorkerBody(i) ==
  /\ i \in 1..Len(inv)
  /\ inv[i].pc = "body"
  /\ \E o \in TaskOutcomes(inv[i].kind) :
       /\ inv' = [inv EXCEPT ![i].pc = IF task(o).escapes THEN "unwinding" ELSE "finally",
                             ![i].raised = (o = "recognize")]
       /\ eventQueue' = eventQueue \o Tagged(i, task(o).emits)
  /\ UNCHANGED <<clipboard, last_clipboard_image_hash, last_clipboard_image,
                 is_clipboard_monitoring_enabled, processing_image, api_key_entry,
                 selectPc, tempFiles, timerActive, restoreTimers, samples, arg, ret>>

\* A faulty finally clause that clears processing_image on the worker thread.
WorkerFinally_clears_flag(i) ==
  /\ i \in 1..Len(inv)
  /\ inv[i].pc \in {"finally", "unwinding"}
  /\ inv' = [inv EXCEPT ![i].pc = IF inv[i].pc = "unwinding" THEN "escaped" ELSE "done"]
  /\ eventQueue' = Append(eventQueue, [of |-> i, sig |-> "finished"])
  /\ processing_image' = FALSE
  /\ UNCHANGED <<clipboard, last_clipboard_image_hash, last_clipboard_image,
                 is_clipboard_monitoring_enabled, api_key_entry,
                 selectPc, tempFiles, timerActive, restoreTimers, samples, arg, ret>>

\* The worker thread of invocation i runs the finally clause of task().
WorkerFinally(i) ==
  /\ i \in 1..Len(inv)
  /\ inv[i].pc \in {"finally", "unwinding"}
  /\ inv' = [inv EXCEPT ![i].pc = IF inv[i].pc = "unwinding" THEN "escaped" ELSE "done"]
  /\ eventQueue' = Append(eventQueue, [of |-> i, sig |-> "finished"])
  /\ UNCHANGED <<clipboard, last_clipboard_image_hash, last_clipboard_image,
                 is_clipboard_monitoring_enabled, processing_image, api_key_entry,
                 selectPc, tempFiles, timerActive, restoreTimers, samples, arg, ret>>

\* The event loop runs the slot of the oldest queued signal: update_result for
\* result and error, processing_finished for finished.
DeliverSignal ==
  /\ eventQueue # <<>>
  /\ LET e == Head(eventQueue)
     IN  /\ inv' = [inv EXCEPT ![e.of].notes = Append(@, e.sig)]
         /\ IF e.sig = "finished" THEN processing_finished
            ELSE UNCHANGED processing_image
  /\ eventQueue' = Tail(eventQueue)
  /\ UNCHANGED <<clipboard, last_clipboard_image_hash, last_clipboard_image,
                 is_clipboard_monitoring_enabled, api_key_entry,
                 selectPc, tempFiles, timerActive, restoreTimers, samples, arg, ret>>

(***************************************************************************)
(* Event-loop handlers                                                     *)
(***************************************************************************)
\* The timer's timeout runs check_clipboard_for_image on clipboard content
\* clip; cap bounds the invocations of the run.
TickBody(clip, saveOk, openOk, h, launchOk, cap) ==
  LET r == check_clipboard_for_image(clip, saveOk, openOk, h, api_key_entry,
             is_clipboard_monitoring_enabled, processing_image,
             last_clipboard_image_hash, last_clipboard_image)
  IN  /\ timerActive
      /\ r.leak = 1 => tempFiles < MaxTempFiles
      /\ r.dispatch => CanDispatch(cap)
      /\ last_clipboard_image_hash' = r.hash
      /\ last_clipboard_image' = r.image
      /\ tempFiles' = tempFiles + r.leak
      /\ IF r.dispatch THEN process_pil_image(api_key_entry, launchOk)
         ELSE UNCHANGED <<processing_image, inv>>
      /\ UNCHANGED <<is_clipboard_monitoring_enabled, api_key_entry, selectPc,
                     eventQueue, timerActive, restoreTimers, arg, ret>>

\* What the library calls of one tick can do; a call that is not reached has
\* one value: a failed save opens nothing, a failed open hashes nothing.
TickOutcomes ==
  {o \in [saveOk : BOOLEAN, openOk : BOOLEAN, h : HashOutcomes, launchOk : BOOLEAN] :
     /\ ~o.saveOk => o.openOk
     /\ ~o.openOk => o.h = "digest"
     /\ (~o.saveOk \/ ~o.openOk \/ o.h = "raise") => o.launchOk}

Tick(cap) ==
  \E o \in TickOutcomes :
    /\ TickBody(clipboard, o.saveOk, o.openOk, o.h, o.launchOk, cap)
    /\ UNCHANGED <<clipboard, samples>>

\* select_image up to QFileDialog.getOpenFileName: with processing_image set it
\* shows the message box and returns, otherwise it opens the modal dialog.
select_image_enter(busy) == IF busy THEN "idle" ELSE "dialog"

\* The user clicks the select button.
SelectImageOpen ==
  /\ selectPc = "idle"
  /\ selectPc' = select_image_enter(processing_image)
  /\ UNCHANGED <<clipboard, last_clipboard_image_hash, last_clipboard_image,
                 is_clipboard_monitoring_enabled, processing_image, api_key_entry,
                 inv, eventQueue, tempFiles, timerActive, restoreTimers,
                 samples, arg, ret>>

\* The modal dialog returns: select_image from "if file_path:" on.  The dialog
\* ran its own event loop, so ticks and slots ran while it was open.
SelectImageChoose(cap) ==
  /\ selectPc = "dialog"
  /\ selectPc' = "idle"
  /\ \E chosen, launchOk \in BOOLEAN :
       IF chosen /\ api_key_entry # ""
       THEN CanDispatch(cap) /\ process_image(api_key_entry, launchOk)
       ELSE UNCHANGED <<processing_image, inv>>
  /\ UNCHANGED <<clipboard, last_clipboard_image_hash, last_clipboard_image,
                 is_clipboard_monitoring_enabled, api_key_entry,
                 eventQueue, tempFiles, timerActive, restoreTimers,
                 samples, arg, ret>>

\* The user edits the API Key field.
SetApiKey ==
  /\ selectPc = "idle"
  /\ \E k \in {"", "key"} : k # api_key_entry /\ api_key_entry' = k
  /\ UNCHANGED <<clipboard, last_clipboard_image_hash, last_clipboard_image,
                 is_clipboard_monitoring_enabled, processing_image, selectPc, inv,
                 eventQueue, tempFiles, timerActive, restoreTimers, samples,
                 arg, ret>>

\* Another program puts c on the clipboard.
UserCopies ==
  /\ \E c \in ClipContents : c # clipboard /\ clipboard' = c
  /\ UNCHANGED <<last_clipboard_image_hash, last_clipboard_image,
                 is_clipboard_monitoring_enabled, processing_image, api_key_entry,
                 selectPc, inv, eventQueue, tempFiles, timerActive, restoreTimers, samples,
                 arg, ret>>

\* The user confirms the monitoring dialog with the checkbox at enable:
\* toggle_clipboard_monitoring(enable).
Toggle ==
  /\ selectPc = "idle"
  /\ \E enable \in BOOLEAN :
       /\ is_clipboard_monitoring_enabled' = enable
       /\ timerActive' = enable
  /\ UNCHANGED <<clipboard, last_clipboard_image_hash, last_clipboard_image,
                 processing_image, api_key_entry, selectPc, inv, eventQueue,
                 tempFiles, restoreTimers, samples, arg, ret>>

\* copy_result_to_clipboard with a non-empty result text: monitoring is switched
\* off, the text replaces what the clipboard held, and a single-shot timer is
\* started with the state monitoring had.
CopyResult ==
  /\ selectPc = "idle"
  /\ Len(restoreTimers) < MaxPendingRestores
  /\ restoreTimers' = Append(restoreTimers, is_clipboard_monitoring_enabled)
  /\ is_clipboard_monitoring_enabled' = FALSE
  /\ clipboard' = "none"
  /\ UNCHANGED <<last_clipboard_image_hash, last_clipboard_image,
                 processing_image, api_key_entry, selectPc, inv, eventQueue,
                 tempFiles, timerActive, samples, arg, ret>>

\* The oldest single-shot timer fires: restore_clipboard_monitoring(state).
RestoreMonitoring ==
  /\ restoreTimers # <<>>
  /\ \E o \in TickOutcomes :
       LET r == initialize_clipboard_state(clipboard, o.saveOk, o.openOk, o.h,
                  last_clipboard_image_hash, last_clipboard_image)
       IN  /\ o.launchOk
           /\ r.leak = 1 => tempFiles < MaxTempFiles
           /\ last_clipboard_image_hash' = r.hash
           /\ last_clipboard_image' = r.image
           /\ tempFiles' = tempFiles + r.leak
  /\ is_clipboard_monitoring_enabled' = Head(restoreTimers)
  /\ restoreTimers' = Tail(restoreTimers)
  /\ UNCHANGED <<clipboard, processing_image, api_key_entry, selectPc, inv,
                 eventQueue, timerActive, samples, arg, ret>>

(***************************************************************************)
(* The program after MainWindow.__init__: the flags of lines 219-222, the   *)
(* key field loaded from the settings file, the timer started, and the     *)
(* startup sample taken by initialize_clipboard_state.                     *)
(***************************************************************************)
AppInit(c, key, r) ==
  /\ clipboard = c
  /\ last_clipboard_image_hash = r.hash
  /\ last_clipboard_image = r.image
  /\ tempFiles = r.leak
  /\ is_clipboard_monitoring_enabled = TRUE
  /\ processing_image = FALSE
  /\ api_key_entry = key
  /\ selectPc = "idle"
  /\ inv = <<>>
  /\ eventQueue = <<>>
  /\ timerActive = TRUE
  /\ restoreTimers = <<>>

Init ==
  /\ \E c \in ClipContents, key \in {"", "key"}, saveOk, openOk \in BOOLEAN,
        h \in HashOutcomes :
       AppInit(c, key, initialize_clipboard_state(c, saveOk, openOk, h, NoHash, NoImage))
  /\ samples = <<>>
  /\ arg = <<>>
  /\ ret = <<>>

\* The steps of the program with at most cap invocations in the run.
NextCap(cap) ==
  \/ Tick(cap)
  \/ SelectImageOpen
  \/ SelectImageChoose(cap)
  \/ SetApiKey
  \/ UserCopies
  \/ \E i \in 1..cap : WorkerBody(i)
  \/ \E i \in 1..cap : WorkerFinally(i)
  \/ DeliverSignal

Next == NextCap(MaxInvocations)

Spec == Init /\ [][Next]_vars

FairNext == NextCap(MaxFairInvocations)

\* The worker threads run to their end and the event loop keeps taking queued
\* signals.
FairSpec ==
  /\ Init
  /\ [][FairNext]_vars
  /\ WF_vars(\E i \in 1..MaxFairInvocations : WorkerBody(i))
  /\ WF_vars(\E i \in 1..MaxFairInvocations : WorkerFinally(i))
  /\ WF_vars(DeliverSignal)

(***************************************************************************)
(* Properties of the pipeline                                              *)
(***************************************************************************)
\* every signal invocation i has emitted, delivered or still queued
Emitted(i) == inv[i].notes \o SignalsOf(i, eventQueue)

IsPrefix(s, t) == Len(s) <= Len(t) /\ \A k \in 1..Len(s) : s[k] = t[k]

\* the worker thread of invocation i has been started and its finished
\* notification has not been delivered
InFlight(i) ==
  /\ inv[i].pc # "nolaunch"
  /\ \A k \in 1..Len(inv[i].notes) : inv[i].notes[k] # "finished"

\* this step starts the worker thread of invocation i
Started(i) ==
  /\ i \in 1..Len(inv')
  /\ inv'[i].pc = "body"
  /\ i > Len(inv) \/ inv[i].pc # "body"

\* C1: in every reachable state at most one pipeline invocation is in flight
\* (no dispatch starts while an earlier worker has not reported finished).
C1_SingleFlight ==
  Cardinality({i \in Invocations : InFlight(i)}) <= 1

\* C2: every invocation, a failed thread start included, delivers exactly one
\* terminal notification (result or error) and after it exactly one finished.
C2_OneTerminalThenFinished ==
  \A i \in Invocations :
    /\ \/ IsPrefix(inv[i].notes, <<"result", "finished">>)
       \/ IsPrefix(inv[i].notes, <<"error", "finished">>)
    /\ Over(i) => Len(inv[i].notes) = 2

\* C3: an invocation whose recognize_image_content raised emits exactly one
\* error and then exactly one finished, never a result, and the exception
\* stays inside the worker.
C3_ErrorIsolation ==
  \A i \in Invocations :
    inv[i].raised =>
      /\ inv[i].pc \notin {"unwinding", "escaped"}
      /\ IsPrefix(Emitted(i), <<"error", "finished">>)
      /\ inv[i].pc = "done" => Emitted(i) = <<"error", "finished">>
      /\ Over(i) => inv[i].notes = <<"error", "finished">>

C3_Witness ==
  \E i \in Invocations :
    inv[i].raised /\ Over(i) /\ inv[i].notes = <<"error", "finished">>

\* C5: a dispatch that starts a worker sets processing_image, and whenever
\* processing_image is set it is cleared again later, the workers running to
\* their end.
C5_GuardRelease ==
  /\ [][\A i \in 1..Len(inv') :
          (inv'[i].pc = "body" /\ (i > Len(inv) \/ inv[i].pc # "body"))
            => processing_image']_vars
  /\ processing_image ~> ~processing_image

C5_Witness ==
  \E i \in Invocations :
    /\ Over(i)
    /\ inv[i].notes \in {<<"result", "finished">>, <<"error", "finished">>}
    /\ ~processing_image

\* C6: every temporary file created for a decode round trip is deleted when
\* the operation that created it returns.
C6_TempFilesReleased ==
  tempFiles = 0

\* C11: no invocation is ever given an empty API key, and a step taken while
\* the key field is empty starts no worker and does not set processing_image.
C11_NoDispatchWithoutKey ==
  /\ [](\A i \in Invocations : inv[i].key # "")
  /\ [][api_key_entry = ""
          => /\ \A i \in 1..Len(inv') : ~Started(i)
             /\ processing_image' => processing_image]_vars

\* a tick has run (a temporary file is left, or an image was recorded that the
\* failed startup sample did not record) and, the key being empty, nothing
\* was ever dispatched for the image on the clipboard
C11_Witness ==
  /\ api_key_entry = ""
  /\ inv = <<>>
  /\ tempFiles > 0
  /\ hasImage(clipboard)
  /\ last_clipboard_image = clipboard

\* this step is taken by the worker thread of invocation i
WorkerStep(i) ==
  /\ i \in Invocations
  /\ inv[i].pc \in {"body", "finally", "unwinding"}
  /\ inv' # inv
  /\ inv'[i].pc # inv[i].pc

\* this step is the slot of a finished notification
FinishedHandler ==
  /\ eventQueue # <<>>
  /\ Head(eventQueue).sig = "finished"
  /\ eventQueue' = Tail(eventQueue)

\* this step is select_image from the return of the dialog on, whose
\* process_image holds the launch-failure handler that can clear a set flag
\* (check_clipboard_for_image reaches process_pil_image with the flag clear)
SelectHandler == selectPc = "dialog" /\ selectPc' = "idle"

WatchImages == {"A", "B"}

Quiescent == ~processing_image /\ \A i \in Invocations : Over(i)

WatchInit ==
  /\ \E c \in {"none"} \cup WatchImages, saveOk, openOk \in BOOLEAN, h \in HashOutcomes :
       LET r == initialize_clipboard_state(c, saveOk, openOk, h, NoHash, NoImage)
       IN  /\ AppInit(c, "key", r)
           /\ samples = <<[img |-> c, sampled |-> r.sampled, dispatched |-> FALSE]>>
  /\ arg = <<>>
  /\ ret = <<>>

\* The clipboard holds img when the timer fires.
SampleTick ==
  /\ Quiescent
  /\ Len(samples) <= MaxSamples
  /\ \E img \in WatchImages, o \in TickOutcomes :
       LET r == check_clipboard_for_image(img, o.saveOk, o.openOk, o.h, api_key_entry,
                  is_clipboard_monitoring_enabled, processing_image,
                  last_clipboard_image_hash, last_clipboard_image)
       IN  /\ clipboard' = img
           /\ TickBody(img, o.saveOk, o.openOk, o.h, o.launchOk, MaxInvocations)
           /\ samples' = IF r.sampled \/ img # clipboard
                         THEN Append(samples, [img |-> img, sampled |-> r.sampled,
                                               dispatched |-> r.dispatch])
                         ELSE samples

WatchNext ==
  \/ SampleTick
  \/ \E i \in 1..MaxInvocations : WorkerBody(i)
  \/ \E i \in 1..MaxInvocations : WorkerFinally(i)
  \/ DeliverSignal

WatchSpec == WatchInit /\ [][WatchNext]_vars

\* the startup entry and the ticks that computed a fingerprint
Sampled == <<samples[1]>> \o SelectSeq(Tail(samples), LAMBDA e : e.sampled)

\* what a content-based fingerprint of a log entry depends on
Content(e) == IF e.sampled THEN GrayBytes(Pixels(e.img)) ELSE <<>>

NumDispatched(s) == Cardinality({k \in 1..Len(s) : s[k].dispatched})

\* the invocation the watcher dispatched last has ended in Failure
LastFailed ==
  /\ inv # <<>>
  /\ Over(1)
  /\ inv[1].notes[1] = "error"

\* the clipboard content is the same in the log entries k..Len(s)
UnchangedSince(s, k) == \A j \in k..Len(s) : s[j].img = s[k].img

\* C4: the watcher dispatches exactly at the samples whose fingerprint differs
\* from the previously sampled one, never on a repeat; with nothing sampled at
\* startup the samples A, A, B, B, A give 3 dispatches.
C4_ChangeDetection ==
  /\ \A k \in 2..Len(Sampled) :
       Sampled[k].dispatched <=> Content(Sampled[k]) # Content(Sampled[k - 1])
  /\ ( /\ ~samples[1].sampled
       /\ Len(samples) = 6
       /\ \A k \in 2..6 : samples[k].sampled
       /\ [k \in 1..5 |-> samples[k + 1].img] = <<"A", "A", "B", "B", "A">> )
     => NumDispatched(samples) = 3

\* C10: after a watcher invocation has ended in Failure, a tick that finds
\* the clipboard as it was at that dispatch dispatches nothing.
C10_NoAutomaticRetry ==
  [][\A k \in 1..Len(samples) :
       ( /\ Len(samples') = Len(samples) + 1
         /\ samples[k].dispatched
         /\ LastFailed
         /\ UnchangedSince(samples', k) )
       => ~samples'[Len(samples')].dispatched]_vars

\* C13: the startup sample dispatches nothing, and no tick dispatches while
\* the clipboard still holds what it held when the program started.
C13_StartupSample ==
  /\ ~samples[1].dispatched
  /\ Len(samples) = 1 => inv = <<>>
  /\ \A k \in 2..Len(samples) : UnchangedSince(SubSeq(samples, 1, k), 1) => ~samples[k].dispatched

(***************************************************************************)
(* The watcher with the monitoring dialog and the copy button: an API key  *)
(* entered, no manual trigger.  samples holds the last image another       *)
(* program put on the clipboard and whether the timer was running then.    *)
(***************************************************************************)
MonitorInit ==
  /\ \E c \in ClipContents, saveOk, openOk \in BOOLEAN, h \in HashOutcomes :
       AppInit(c, "key", initialize_clipboard_state(c, saveOk, openOk, h, NoHash, NoImage))
  /\ samples = <<>>
  /\ arg = <<>>
  /\ ret = <<>>

\* Another program puts the image img on the clipboard.
PutImage ==
  /\ \E img \in WatchImages :
       /\ img # clipboard
       /\ clipboard' = img
       /\ samples' = <<[img |-> img, timer |-> timerActive]>>
  /\ UNCHANGED <<last_clipboard_image_hash, last_clipboard_image,
                 is_clipboard_monitoring_enabled, processing_image, api_key_entry,
                 selectPc, inv, eventQueue, tempFiles, timerActive, restoreTimers,
                 arg, ret>>

MonitorNext ==
  \/ Tick(MaxFairInvocations)
  \/ PutImage
  \/ Toggle
  \/ CopyResult
  \/ RestoreMonitoring
  \/ \E i \in 1..MaxFairInvocations : WorkerBody(i)
  \/ \E i \in 1..MaxFairInvocations : WorkerFinally(i)
  \/ DeliverSignal

MonitorSpec == MonitorInit /\ [][MonitorNext]_vars

\* this step is a tick that starts a pipeline
WatcherDispatch == \E i \in 1..MaxFairInvocations : Started(i) /\ inv'[i].kind = "clip"

\* the clipboard holds an image that was put on it while the timer was stopped
PutWhileStopped ==
  /\ samples # <<>>
  /\ ~samples[1].timer
  /\ samples[1].img = clipboard

\* C14: disabling stops the timer, re-enabling starts it again, and no tick
\* dispatches an image that was put on the clipboard while monitoring was
\* disabled.
C14_ToggleResample ==
  [][/\ (timerActive /\ ~timerActive') => ~is_clipboard_monitoring_enabled'
     /\ (~timerActive /\ timerActive') => is_clipboard_monitoring_enabled'
     /\ WatcherDispatch => ~PutWhileStopped]_vars

\* a tick in this state returns at line 475
TickBlocked == ~is_clipboard_monitoring_enabled \/ processing_image

\* C16: a tick that arrives while monitoring is disabled or a pipeline is
\* running does nothing, whatever the clipboard holds: no fingerprint is
\* computed, no temporary file is made, nothing is dispatched and
\* last_clipboard_image_hash and last_clipboard_image stay as they are; in such
\* a state only the re-sample of a copy timer changes them.
C16_TickIgnored ==
  /\ [](TickBlocked =>
          \A clip \in ClipContents, o \in TickOutcomes :
            check_clipboard_for_image(clip, o.saveOk, o.openOk, o.h, api_key_entry,
                is_clipboard_monitoring_enabled, processing_image,
                last_clipboard_image_hash, last_clipboard_image)
              = [hash |-> last_clipboard_image_hash, image |-> last_clipboard_image,
                 leak |-> 0, dispatch |-> FALSE, sampled |-> FALSE])
  /\ [][(TickBlocked /\ restoreTimers' = restoreTimers)
          => /\ last_clipboard_image_hash' = last_clipboard_image_hash
             /\ last_clipboard_image' = last_clipboard_image
             /\ tempFiles' = tempFiles
             /\ ~WatcherDispatch]_vars

\* the timer runs and a new image is on the clipboard while a pipeline is
\* running, or while monitoring is switched off by a copy action
C16_Witness ==
  /\ timerActive
  /\ clipboard \in WatchImages
  /\ last_clipboard_image # clipboard
  /\ \/ processing_image /\ is_clipboard_monitoring_enabled
     \/ ~processing_image /\ ~is_clipboard_monitoring_enabled

\* The watcher and the copy button, the monitoring dialog left alone.
CooldownNext ==
  \/ Tick(MaxFairInvocations)
  \/ PutImage
  \/ CopyResult
  \/ RestoreMonitoring
  \/ \E i \in 1..MaxFairInvocations : WorkerBody(i)
  \/ \E i \in 1..MaxFairInvocations : WorkerFinally(i)
  \/ DeliverSignal

CooldownSpec == MonitorInit /\ [][CooldownNext]_vars

\* C15: while the single-shot timer of a copy action is pending, no tick
\* dispatches.
C15_CopyCooldown ==
  [][restoreTimers # <<>> => ~WatcherDispatch]_vars

\* C22: monitoring is enabled when the program starts and the dialog is left
\* alone, so whenever no copy timer is pending monitoring is enabled again.
C22_CooldownRestores ==
  restoreTimers = <<>> => is_clipboard_monitoring_enabled

\* C23: whenever no copy timer is pending, monitoring is enabled if and only
\* if the poll timer is running.
C23_SwitchMatchesTimer ==
  restoreTimers = <<>> => (is_clipboard_monitoring_enabled <=> timerActive)

\* the clipboard holds no image, or an image that is null
NoImageOnClipboard == ~hasImage(clipboard) \/ isNull(clipboard)

\* C24: a tick or a re-sample that finds no image or a null image on the
\* clipboard leaves last_clipboard_image_hash and last_clipboard_image as they
\* are and dispatches nothing, so the record survives non-image content; and an
\* image whose fingerprint equals the recorded one is not dispatched: every
\* dispatch of the watcher records a fingerprint different from the last.
C24_NoImageKeepsRecord ==
  /\ [](\A clip \in {c \in ClipContents : ~hasImage(c) \/ isNull(c)}, o \in TickOutcomes :
          /\ check_clipboard_for_image(clip, o.saveOk, o.openOk, o.h, api_key_entry,
                  is_clipboard_monitoring_enabled, processing_image,
                  last_clipboard_image_hash, last_clipboard_image)
                = [hash |-> last_clipboard_image_hash, image |-> last_clipboard_image,
                   leak |-> 0, dispatch |-> FALSE, sampled |-> FALSE]
          /\ initialize_clipboard_state(clip, o.saveOk, o.openOk, o.h,
                  last_clipboard_image_hash, last_clipboard_image)
                = [hash |-> last_clipboard_image_hash, image |-> last_clipboard_image,
                   leak |-> 0, sampled |-> FALSE])
  /\ [](\A img \in WatchImages, o \in TickOutcomes :
          calculate_image_hash(Pixels(img), o.h) = last_clipboard_image_hash
            => ~check_clipboard_for_image(img, o.saveOk, o.openOk, o.h, api_key_entry,
                    is_clipboard_monitoring_enabled, processing_image,
                    last_clipboard_image_hash, last_clipboard_image).dispatch)
  /\ [][/\ (NoImageOnClipboard /\ clipboard' = clipboard)
             => (/\ last_clipboard_image_hash' = last_clipboard_image_hash
                 /\ last_clipboard_image' = last_clipboard_image
                 /\ ~WatcherDispatch)
        /\ WatcherDispatch
             => (last_clipboard_image_hash' # last_clipboard_image_hash)]_vars

\* the copied text is on the clipboard, its cooldown has expired with the
\* re-sample finding no image, the ticks run again, and the image recorded
\* before the copy is still the recorded one
C24_Witness ==
  /\ NoImageOnClipboard
  /\ last_clipboard_image # NoImage
  /\ restoreTimers = <<>>
  /\ is_clipboard_monitoring_enabled
  /\ timerActive

(***************************************************************************)
(* The watcher and the API Key field, no manual trigger.  samples holds    *)
(* the image a tick recorded as new while the key field was empty, until   *)
(* another program changes the clipboard.                                  *)
(***************************************************************************)
KeyInit ==
  /\ \E c \in ClipContents, key \in {"", "key"}, saveOk, openOk \in BOOLEAN,
        h \in HashOutcomes :
       AppInit(c, key, initialize_clipboard_state(c, saveOk, openOk, h, NoHash, NoImage))
  /\ samples = <<>>
  /\ arg = <<>>
  /\ ret = <<>>

\* The timer fires.
KeyTick ==
  /\ \E o \in TickOutcomes :
       LET r == check_clipboard_for_image(clipboard, o.saveOk, o.openOk, o.h, api_key_entry,
                  is_clipboard_monitoring_enabled, processing_image,
                  last_clipboard_image_hash, last_clipboard_image)
       IN  /\ TickBody(clipboard, o.saveOk, o.openOk, o.h, o.launchOk, MaxFairInvocations)
           /\ samples' = IF r.hash # last_clipboard_image_hash /\ api_key_entry = ""
                         THEN <<[img |-> clipboard]>>
                         ELSE samples
  /\ UNCHANGED clipboard

\* Another program puts the image img on the clipboard.
KeyPutImage ==
  /\ \E img \in WatchImages : img # clipboard /\ clipboard' = img
  /\ samples' = <<>>
  /\ UNCHANGED <<last_clipboard_image_hash, last_clipboard_image,
                 is_clipboard_monitoring_enabled, processing_image, api_key_entry,
                 selectPc, inv, eventQueue, tempFiles, timerActive, restoreTimers,
                 arg, ret>>

KeyNext ==
  \/ KeyTick
  \/ KeyPutImage
  \/ SetApiKey
  \/ \E i \in 1..MaxFairInvocations : WorkerBody(i)
  \/ \E i \in 1..MaxFairInvocations : WorkerFinally(i)
  \/ DeliverSignal

KeySpec == KeyInit /\ [][KeyNext]_vars

\* the clipboard holds the image a tick recorded while the key field was empty
SeenWithoutKey == samples # <<>> /\ samples[1].img = clipboard

\* C21: a tick that sees a new fingerprint while the key field is empty
\* records the image and dispatches nothing, and no later tick dispatches
\* that image while it stays on the clipboard, a key entered or not.
C21_RecordedBeforeKeyCheck ==
  [][/\ (api_key_entry = "" /\ last_clipboard_image_hash' # last_clipboard_image_hash)
          => (last_clipboard_image' = clipboard /\ ~WatcherDispatch)
     /\ WatcherDispatch => ~SeenWithoutKey]_vars

(***************************************************************************)
(* The pure functions.  Each has a specification of its own: Init draws    *)
(* the input, one action applies the function; the window is idle.         *)
(***************************************************************************)
AppIdle ==
  /\ AppInit("none", "", [hash |-> NoHash, image |-> NoImage, leak |-> 0])
  /\ samples = <<>>

(***************************************************************************)
(* process_latex_output.  A text is a sequence of tokens: "F" the fence    *)
(* ```, "latex" the language tag, "ob" "cb" "op" "cp" the delimiters       *)
(* \[ \] \( \), "beq" "eeq" "bal" "eal" the \begin and \end markers of     *)
(* equation* and align*, "ws" a whitespace character, "x" another          *)
(* character, "$" a dollar sign.                                           *)
(***************************************************************************)
Tokens == {"F", "latex", "ob", "cb", "op", "cp", "beq", "eeq", "bal", "eal", "ws", "x", "$"}

RECURSIVE TextsOfLen(_)
TextsOfLen(n) ==
  IF n = 0 THEN {<<>>}
  ELSE {Append(t, c) : t \in TextsOfLen(n - 1), c \in Tokens}

\* the texts of at most n tokens
TextsUpTo(n) == UNION {TextsOfLen(k) : k \in 0..n}

RECURSIVE LStrip(_)
LStrip(t) == IF t # <<>> /\ t[1] = "ws" THEN LStrip(Tail(t)) ELSE t

RECURSIVE RStrip(_)
RStrip(t) ==
  IF t # <<>> /\ t[Len(t)] = "ws" THEN RStrip(SubSeq(t, 1, Len(t) - 1)) ELSE t

\* str.strip()
Strip(t) == RStrip(LStrip(t))

\* lines 630-635: one leading fence, with or without the tag, and one trailing
\* fence are removed
StripFences(t) ==
  LET a == IF Len(t) >= 2 /\ t[1] = "F" /\ t[2] = "latex" THEN Strip(SubSeq(t, 3, Len(t)))
           ELSE IF Len(t) >= 1 /\ t[1] = "F" THEN Strip(Tail(t))
           ELSE t
  IN  IF a # <<>> /\ a[Len(a)] = "F" THEN Strip(SubSeq(a, 1, Len(a) - 1)) ELSE a

RECURSIVE ReplaceDelimiters(_)
\* lines 638-639: the four str.replace calls
ReplaceDelimiters(t) ==
  IF t = <<>> THEN <<>>
  ELSE (CASE t[1] \in {"ob", "cb"} -> <<"$", "$">>
          [] t[1] \in {"op", "cp"} -> <<"$">>
          [] OTHER -> <<t[1]>>) \o ReplaceDelimiters(Tail(t))

\* the positions of token c in t
Positions(t, c) == {i \in 1..Len(t) : t[i] = c}

Min(S) == CHOOSE m \in S : \A n \in S : m <= n

RECURSIVE RewriteEnv(_, _, _)
\* pattern.sub(r'$$ \1 $$', t) for the pattern \begin{..}(.*?)\end{..} with
\* re.DOTALL: leftmost match, shortest body, then on from the end of the match
RewriteEnv(t, b, e) ==
  IF Positions(t, b) = {} THEN t
  ELSE LET i == Min(Positions(t, b))
           ends == {j \in Positions(t, e) : j > i}
       IN  IF ends = {} THEN t
           ELSE LET j == Min(ends)
                IN  SubSeq(t, 1, i - 1)
                      \o <<"$", "$", "ws">> \o SubSeq(t, i + 1, j - 1) \o <<"ws", "$", "$">>
                      \o RewriteEnv(SubSeq(t, j + 1, Len(t)), b, e)

\* process_latex_output on a str (no step raises on a str)
process_latex_output(t) ==
  RewriteEnv(RewriteEnv(ReplaceDelimiters(StripFences(Strip(t))), "beq", "eeq"), "bal", "eal")

NormalizeInit ==
  /\ AppIdle
  /\ arg \in TextsUpTo(MaxLen)
  /\ ret = <<>>

\* The function is applied to the text, then to its own result.
Normalize ==
  /\ Len(ret) < 2
  /\ ret' = Append(ret, process_latex_output(IF ret = <<>> THEN arg ELSE ret[Len(ret)]))
  /\ UNCHANGED <<appVars, arg>>

NormalizeSpec == NormalizeInit /\ [][Normalize]_vars

\* C7: process_latex_output(process_latex_output(x)) = process_latex_output(x)
\* for every text x.
C7_Idempotent ==
  Len(ret) = 2 => ret[2] = ret[1]

(***************************************************************************)
(* calculate_image_hash on two images                                      *)
(***************************************************************************)
RECURSIVE ImagesOfLen(_)
ImagesOfLen(n) ==
  IF n = 0 THEN {<<>>}
  ELSE {Append(img, px) : img \in ImagesOfLen(n - 1), px \in Pixel}

\* the images of at most n pixels
ImagesUpTo(n) == UNION {ImagesOfLen(k) : k \in 1..n}

HashInit ==
  /\ AppIdle
  /\ arg \in [a : ImagesUpTo(MaxPixels), b : ImagesUpTo(MaxPixels), ha : HashOutcomes, hb : HashOutcomes]
  /\ ret = <<>>

Fingerprint ==
  /\ ret = <<>>
  /\ ret' = <<calculate_image_hash(arg.a, arg.ha), calculate_image_hash(arg.b, arg.hb)>>
  /\ UNCHANGED <<appVars, arg>>

HashSpec == HashInit /\ [][Fingerprint]_vars

\* C8: two images have the same fingerprint if and only if their downsampled
\* grayscale byte buffers are equal, on every path through the function that
\* returns a fingerprint.
C8_ContentBased ==
  (ret # <<>> /\ ret[1] # RAISE /\ ret[2] # RAISE)
    => (ret[1] = ret[2] <=> GrayBytes(arg.a) = GrayBytes(arg.b))

(***************************************************************************)
(* qimage_to_pil.  A capture q is [null, zeroSize, format]: isNull(), a    *)
(* width or height of 0 (only a null QImage has one), and the pixel        *)
(* format.  o is what the library calls do: p1 and p2 "ok" | "raise" for   *)
(* the calls of the first and second path, p3 "ok", "tmp" (the temporary   *)
(* file cannot be created), "save" (qimage.save returns False) or "open"   *)
(* (Image.open raises).                                                    *)
(***************************************************************************)
Formats == {"RGB32", "ARGB32", "other"}

Captures ==
  {q \in [null : BOOLEAN, zeroSize : BOOLEAN, format : Formats] : q.zeroSize => q.null}

DecodeOutcomes == [p1 : {"ok", "raise"}, p2 : {"ok", "raise"}, p3 : {"ok", "tmp", "save", "open"}]

\* lines 123-132: save to a buffer, open it, convert to RGB
Path1Ok(q, o) == ~q.null /\ o.p1 = "ok"

\* lines 136-167: direct pixel extraction
Path2Ok(q, o) == ~q.null /\ ~q.zeroSize /\ o.p2 = "ok"

\* lines 162-165: the mode of the image the second path builds
Path2Mode(q) == IF q.format = "ARGB32" THEN "RGBA" ELSE "RGB"

\* lines 172-187: round trip through a temporary file
Path3Ok(q, o) == ~q.null /\ o.p3 = "ok"

\* the temporary files the third path leaves on disk
Path3Leak(q, o) == IF o.p3 = "tmp" \/ Path3Ok(q, o) THEN 0 ELSE 1

\* A faulty qimage_to_pil that goes from the first path to the third.
qimage_to_pil_skip_second(q, o) ==
  IF Path1Ok(q, o)
  THEN [result |-> "image", path |-> 1, tried |-> <<1>>, mode |-> "RGB", leak |-> 0]
  ELSE IF Path3Ok(q, o)
  THEN [result |-> "image", path |-> 3, tried |-> <<1, 3>>, mode |-> "RGB", leak |-> 0]
  ELSE [result |-> "error", path |-> 0, tried |-> <<1, 3>>, mode |-> "none",
        leak |-> Path3Leak(q, o)]

\* qimage_to_pil: the nested try/except of lines 123-190.  tried: the paths
\* entered, in order; path: the one whose image is returned.
qimage_to_pil(q, o) ==
  IF Path1Ok(q, o)
  THEN [result |-> "image", path |-> 1, tried |-> <<1>>, mode |-> "RGB", leak |-> 0]
  ELSE IF Path2Ok(q, o)
  THEN [result |-> "image", path |-> 2, tried |-> <<1, 2>>, mode |-> Path2Mode(q), leak |-> 0]
  ELSE IF Path3Ok(q, o)
  THEN [result |-> "image", path |-> 3, tried |-> <<1, 2, 3>>, mode |-> "RGB", leak |-> 0]
  ELSE [result |-> "error", path |-> 0, tried |-> <<1, 2, 3>>, mode |-> "none",
        leak |-> Path3Leak(q, o)]

DecodeInit ==
  /\ AppIdle
  /\ arg \in [q : Captures, o : DecodeOutcomes]
  /\ ret = <<>>

Decode ==
  /\ ret = <<>>
  /\ ret' = <<qimage_to_pil(arg.q, arg.o)>>
  /\ UNCHANGED <<appVars, arg>>

DecodeSpec == DecodeInit /\ [][Decode]_vars

\* whether path k produces an image for the capture under check
PathOk(k) ==
  CASE k = 1 -> Path1Ok(arg.q, arg.o)
    [] k = 2 -> Path2Ok(arg.q, arg.o)
    [] k = 3 -> Path3Ok(arg.q, arg.o)

\* C9: qimage_to_pil enters the paths in the order 1, 2, 3, each only after
\* the ones before it failed, returns the image of the first path that
\* succeeds, and raises only when all three have failed.
C9_DecodeFallback ==
  ret # <<>> =>
    LET r == ret[1]
    IN  /\ r.tried # <<>>
        /\ r.tried = SubSeq(<<1, 2, 3>>, 1, Len(r.tried))
        /\ \A k \in 1..(Len(r.tried) - 1) : ~PathOk(k)
        /\ r.result \in {"image", "error"}
        /\ r.result = "image" => (r.path = r.tried[Len(r.tried)] /\ PathOk(r.path))
        /\ r.result = "error" <=> \A k \in 1..3 : ~PathOk(k)

C9_Witness ==
  ret # <<>> /\ ret[1].result = "image" /\ ret[1].path = 3

\* C18: every image qimage_to_pil returns is in mode RGB.
C18_AlwaysRGB ==
  (ret # <<>> /\ ret[1].result = "image") => ret[1].mode = "RGB"

(***************************************************************************)
(* The settings file.  A file is [exists, data], data the sequence of      *)
(* tokens it holds; the document json.dump writes for the key k is         *)
(* { "api_key" : k }.  cut is how far save_settings got when it was        *)
(* interrupted: -1 before open(), n >= 0 after open() truncated the file   *)
(* and n tokens of the document reached it; the whole document: not        *)
(* interrupted.                                                            *)
(***************************************************************************)
Keys == {"", "k1", "k2"}

NoFile == [exists |-> FALSE, data |-> <<>>]

\* json.dump({"api_key": k}, file, indent=4)
JsonDump(k) == <<"{", "api_key", ":", k, "}">>

\* json.load(file) followed by settings.get("api_key", ""); "raise" when the
\* data is not a JSON document
JsonLoadKey(data) ==
  IF data = <<"{", "}">> THEN ""
  ELSE IF Len(data) = 5 /\ data = JsonDump(data[4]) THEN data[4]
  ELSE "raise"

Cuts == -1..Len(JsonDump(""))

\* MainWindow.save_settings with self.api_key = k, interrupted at cut: the file
\* it leaves
save_settings(file, k, cut) ==
  IF cut = -1 THEN file
  ELSE [exists |-> TRUE, data |-> SubSeq(JsonDump(k), 1, cut)]

\* MainWindow.load_settings: the value of self.api_key it leaves
load_settings(file) ==
  IF ~file.exists THEN ""
  ELSE IF JsonLoadKey(file.data) = "raise" THEN ""
  ELSE JsonLoadKey(file.data)

\* arg.old: the file before the save (none, or the document of an earlier save)
SettingsInit ==
  /\ AppIdle
  /\ arg \in [old : {NoFile} \cup {save_settings(NoFile, k, Len(JsonDump(k))) : k \in Keys},
              new : Keys, cut : Cuts]
  /\ ret = <<>>

\* save_settings runs up to the interruption
Save ==
  /\ ret = <<>>
  /\ ret' = <<save_settings(arg.old, arg.new, arg.cut)>>
  /\ UNCHANGED <<appVars, arg>>

\* the program is started again and load_settings reads the file
Load ==
  /\ Len(ret) = 1
  /\ ret' = Append(ret, load_settings(ret[1]))
  /\ UNCHANGED <<appVars, arg>>

SettingsSpec == SettingsInit /\ [][Save \/ Load]_vars

\* C12: a load after a save, interrupted or not, yields the key saved before
\* or the new key, and a missing file loads as the empty key.
C12_AtomicSave ==
  Len(ret) = 2 =>
    /\ ret[2] \in {load_settings(arg.old), arg.new}
    /\ ~ret[1].exists => ret[2] = ""

(***************************************************************************)
(* compress_image with output_path None, as the pipeline calls it.  An     *)
(* image is its size [w, h]; the argument is an image object ("object") or *)
(* the path of an image file ("path").                                     *)
(***************************************************************************)
MaxThumbWidth == 800    \* max_size[0]
MaxThumbHeight == 600   \* max_size[1]

Abs(n) == IF n < 0 THEN -n ELSE n

\* PIL's round_aspect for the width: floor or ceiling of MaxThumbHeight * w / h,
\* the one whose aspect is nearer to w / h (the floor on a tie), at least 1;
\* computed exactly, where PIL computes in floating point
RoundWidth(w, h) ==
  LET f == (MaxThumbHeight * w) \div h
      c == IF f * h = MaxThumbHeight * w THEN f ELSE f + 1
      n == IF Abs(w * MaxThumbHeight - f * h) <= Abs(w * MaxThumbHeight - c * h) THEN f ELSE c
  IN  IF n < 1 THEN 1 ELSE n

\* PIL's round_aspect for the height: floor or ceiling of MaxThumbWidth * h / w
RoundHeight(w, h) ==
  LET f == (MaxThumbWidth * h) \div w
      c == IF f * w = MaxThumbWidth * h THEN f ELSE f + 1
      n == IF f = 0 THEN f
           ELSE IF Abs(w * f - MaxThumbWidth * h) * c <= Abs(w * c - MaxThumbWidth * h) * f
                THEN f ELSE c
  IN  IF n < 1 THEN 1 ELSE n

\* Image.thumbnail(max_size): the size the image object has afterwards
thumbnail(img) ==
  IF MaxThumbWidth >= img.w /\ MaxThumbHeight >= img.h THEN img
  ELSE IF MaxThumbWidth * img.h >= MaxThumbHeight * img.w
       THEN [w |-> RoundWidth(img.w, img.h), h |-> MaxThumbHeight]
       ELSE [w |-> MaxThumbWidth, h |-> RoundHeight(img.w, img.h)]

ImageSizes ==
  {[w |-> w, h |-> h] : w \in {1, 800, 801, 1600, 4000}, h \in {1, 600, 601, 1200, 3000}}

\* compress_image(image).  kind "path": Image.open(image) makes the object that
\* is resized; kind "object": img = image, the argument itself is resized.
\* o = "raise": thumbnail raises and the exception is raised again.
\* result: the image returned; input: the argument's image after the call.
compress_image(image, kind, o) ==
  IF o = "raise" THEN [raised |-> TRUE, result |-> image, input |-> image]
  ELSE IF kind = "path" THEN [raised |-> FALSE, result |-> thumbnail(image), input |-> image]
  ELSE [raised |-> FALSE, result |-> thumbnail(image), input |-> thumbnail(image)]

CompressInit ==
  /\ AppIdle
  /\ arg \in [image : ImageSizes, kind : {"path", "object"}, o : {"ok", "raise"}]
  /\ ret = <<>>

Compress ==
  /\ ret = <<>>
  /\ ret' = <<compress_image(arg.image, arg.kind, arg.o)>>
  /\ UNCHANGED <<appVars, arg>>

CompressSpec == CompressInit /\ [][Compress]_vars

\* C19: the image passed to compress_image is after the call what it was
\* before.
C19_InputUnchanged ==
  ret # <<>> => ret[1].input = arg.image

(***************************************************************************)
(* process_latex_output when one of its statements raises.  The except     *)
(* clause returns latex_output, the variable every statement assigns.      *)
(***************************************************************************)
\* lines 630-633: the leading fence is removed
StripLeadingFence(t) ==
  IF Len(t) >= 2 /\ t[1] = "F" /\ t[2] = "latex" THEN Strip(SubSeq(t, 3, Len(t)))
  ELSE IF Len(t) >= 1 /\ t[1] = "F" THEN Strip(Tail(t))
  ELSE t

\* the statement that raises: line 629, 630-633, 634-635, 638-639, 644-645,
\* 648-649
FailPoints == {"strip", "prefix", "suffix", "replace", "equation", "align"}

\* process_latex_output(t) when the statement at raises: the value returned
\* at line 654
process_latex_output_raising(t, at) ==
  CASE at = "strip"    -> t
    [] at = "prefix"   -> Strip(t)
    [] at = "suffix"   -> StripLeadingFence(Strip(t))
    [] at = "replace"  -> StripFences(Strip(t))
    [] at = "equation" -> ReplaceDelimiters(StripFences(Strip(t)))
    [] at = "align"    -> RewriteEnv(ReplaceDelimiters(StripFences(Strip(t))), "beq", "eeq")

NormalizeFailInit ==
  /\ AppIdle
  /\ arg \in [text : TextsUpTo(MaxLen), at : FailPoints]
  /\ ret = <<>>

NormalizeFail ==
  /\ ret = <<>>
  /\ ret' = <<process_latex_output_raising(arg.text, arg.at)>>
  /\ UNCHANGED <<appVars, arg>>

NormalizeFailSpec == NormalizeFailInit /\ [][NormalizeFail]_vars

\* C20: when a step of process_latex_output fails, the text that was passed
\* in is returned.
C20_FailureReturnsInput ==
  ret # <<>> => ret[1] = arg.text

====
